---- MODULE Spec2Model ----
(***************************************************************************)
(* Realtime presence layer of the task-management backend:                 *)
(* SocketService (src/src/common/services/socket.service.ts).              *)
(*                                                                         *)
(* Every connection runs handleConnection once when it is accepted and     *)
(* handleDisconnect once when its transport closes.  Both handlers are     *)
(* async: each await (usersService.findById, usersService.updateLastSeen)  *)
(* is a suspension point, and the handlers of other connections - and the  *)
(* disconnect handler of the same connection - run in between.  One action *)
(* of the model is one run of a handler from one suspension point to the   *)
(* next.                                                                   *)
(***************************************************************************)
EXTENDS Integers, Sequences, FiniteSets, TLC

\* ---------------------------------------------------------------- bounds
NumConns == 2
NumUsers == 1

Conns == 1..NumConns

UserNames == <<"u1", "u2", "u3", "u4">>
\* users of the directory that exist, are active and are confirmed
GoodUsers == {UserNames[i] : i \in 1..NumUsers}
\* ids a verified token can carry besides the good ones
BadUsers == {"missing", "inactive", "unconfirmed"}
SubjectIds == GoodUsers \cup BadUsers

\* ---------------------------------------------------------------- options
None == <<>>
Some(x) == <<x>>
IsSome(o) == o # <<>>
Val(o) == o[1]

\* ---------------------------------------------------------------- state
VARIABLES
  transport,       \* per connection: "pending" (not accepted yet), "open", "closed"
  cpc,             \* per connection: position of its handleConnection
  dpc,             \* per connection: position of its handleDisconnect
  sub,             \* per connection: payload.sub of the verified token
  user,            \* per connection: client.user (the Principal), optional
  connectedUsers,  \* the Map userId -> socket, in insertion order
  lastSeen,        \* user directory: lastSeen field of each good user, optional
  calls,           \* usersService.updateLastSeen calls issued so far
  emitted,         \* events handed to client.broadcast.emit so far
  delivered,       \* the latest delivery: its event and the sockets that got it
  rooms,           \* per connection: the rooms its socket is in
  bus,             \* room events of other processes in flight on the message bus
  boot,            \* position of the bootstrap of the process
  redis,           \* status of the bus clients: the provider's, the pub and the sub duplicate
  busUp,           \* whether the message bus is reachable
  handshake,       \* the handshake the next client presents, in the handshake runs
  peerEmits,       \* user ids another process has called emitNotification for
  tasks,           \* the task collection: the document of each _id handed out so far, optional
  members,         \* the members array of the document of project "A"
  svcPending,      \* the service calls in flight, each suspended at an await
  svcOut           \* the service call that completed last: its outcome and its SocketService calls

\* the state outside the socket service proper
svcVars == <<tasks, members, svcPending, svcOut>>
extVars == <<handshake, peerEmits, svcVars>>

vars == <<transport, cpc, dpc, sub, user, connectedUsers, lastSeen, calls,
          emitted, delivered, rooms, bus, boot, redis, busUp, extVars>>

\* ---------------------------------------------------------------- JS Map
MapIndex(m, k) ==
  IF \E i \in 1..Len(m) : m[i].key = k
    THEN CHOOSE i \in 1..Len(m) : m[i].key = k /\ \A j \in 1..(i-1) : m[j].key # k
    ELSE 0

MapHas(m, k) == MapIndex(m, k) # 0

MapGet(m, k) == IF MapHas(m, k) THEN Some(m[MapIndex(m, k)].value) ELSE None

\* Map.set with a new entry appended even when the key is already present
MapSetNoReplace(m, k, v) == Append(m, [key |-> k, value |-> v])

\* Map.prototype.set: an existing key keeps its position and gets the new value
MapSet(m, k, v) ==
  IF MapHas(m, k)
    THEN [m EXCEPT ![MapIndex(m, k)] = [key |-> k, value |-> v]]
    ELSE Append(m, [key |-> k, value |-> v])

MapDelete(m, k) ==
  IF MapHas(m, k)
    THEN SubSeq(m, 1, MapIndex(m, k) - 1) \o SubSeq(m, MapIndex(m, k) + 1, Len(m))
    ELSE m

MapKeys(m) == [i \in 1..Len(m) |-> m[i].key]

MapSize(m) == Len(m)

\* ---------------------------------------------------------------- queries
isUserOnline(userId) == MapHas(connectedUsers, userId)

getConnectedUsers == MapKeys(connectedUsers)

\* the count taken as the number of connected sockets
getConnectedUserCountSockets == Cardinality({c \in Conns : transport[c] = "open"})

getConnectedUserCount == MapSize(connectedUsers)

\* ---------------------------------------------------------------- handshake
\* A string is a sequence of atoms; "Bearer " is one atom, a signed token
\* for subject s is the two atoms <<"jwt", s>>, anything else does not verify.
Bearer == "Bearer "

JwtFor(s) == <<"jwt", s>>

Tokens == {JwtFor(s) : s \in SubjectIds} \cup {<<"garbage">>, <<>>}

\* a handshake with neither auth.token nor Authorization header
NoHandshake == [auth |-> None, authorization |-> None]

Handshakes ==
  {[auth |-> a, authorization |-> h] :
     a \in {None} \cup {Some(t) : t \in Tokens},
     h \in {None} \cup {Some(<<Bearer>> \o t) : t \in {JwtFor("u1"), <<"garbage">>}}
            \cup {Some(JwtFor("u1"))}}

\* String.prototype.replace('Bearer ', ''): the first occurrence is removed
ReplaceBearer(s) ==
  IF \E i \in 1..Len(s) : s[i] = Bearer
    THEN LET i == CHOOSE i \in 1..Len(s) : s[i] = Bearer /\ \A j \in 1..(i-1) : s[j] # Bearer
         IN  SubSeq(s, 1, i - 1) \o SubSeq(s, i + 1, Len(s))
    ELSE s

\* a string is truthy unless it is empty
Truthy(o) == IsSome(o) /\ Val(o) # <<>>

authToken(hs) == hs.auth

headerToken(hs) ==
  IF IsSome(hs.authorization) THEN Some(ReplaceBearer(Val(hs.authorization))) ELSE None

\* headerToken || authToken
TokenOfHeaderFirst(hs) == IF Truthy(headerToken(hs)) THEN headerToken(hs) ELSE authToken(hs)

\* authToken || headerToken
TokenOf(hs) == IF Truthy(authToken(hs)) THEN authToken(hs) ELSE headerToken(hs)

\* jwtService.verify: the payload, or None when it throws
Verify(t) == IF Len(t) = 2 /\ t[1] = "jwt" THEN Some([sub |-> t[2]]) ELSE None

\* ---------------------------------------------------------------- directory
Email(id) == <<id, "@example.com">>

\* the user document the directory holds for an id, None when there is none
Directory(id) ==
  IF id = "missing" THEN None
  ELSE Some([_id |-> id, email |-> Email(id),
             isActive |-> id # "inactive",
             isConfirmed |-> id # "unconfirmed",
             isAdmin |-> id = "u1"])

\* new Date() at a call site of a handler of connection c
Date(c, site) == [by |-> c, at |-> site]

\* ---------------------------------------------------------------- handleConnection, checks
\* the user checks without the isConfirmed test
RejectPointNoConfirm(found) ==
  IF ~IsSome(found) THEN "notFound"
  ELSE IF ~Val(found).isActive THEN "inactive"
  ELSE "ok"

\* where handleConnection returns for a looked-up user, "ok" when it goes on
RejectPoint(found) ==
  IF ~IsSome(found) THEN "notFound"
  ELSE IF ~Val(found).isActive THEN "inactive"
  ELSE IF ~Val(found).isConfirmed THEN "unconfirmed"
  ELSE "ok"

PrincipalOf(doc) == [id |-> doc._id, email |-> doc.email, isAdmin |-> doc.isAdmin]

\* the presence payload with isOnline left false
UserPresenceOffline(c, doc) ==
  [userId |-> doc._id, email |-> doc.email, isOnline |-> FALSE,
   lastSeen |-> Date(c, "online")]

UserPresence(c, doc) ==
  [userId |-> doc._id, email |-> doc.email, isOnline |-> TRUE,
   lastSeen |-> Date(c, "online")]

Event(name, c, data) == [name |-> name, from |-> c, data |-> data]

\* ---------------------------------------------------------------- broadcast
\* server.emit: every connected socket, the sender included
RecipientsAll(c) == {d \in Conns : transport[d] = "open"}

\* client.broadcast: every connected socket of the namespace except the sender
Recipients(c) == {d \in Conns : d # c /\ transport[d] = "open"}

BroadcastEmit(c, name, data) ==
  /\ emitted' = emitted \cup {Event(name, c, data)}
  /\ delivered' = Some([event |-> Event(name, c, data), to |-> Recipients(c)])

\* ---------------------------------------------------------------- handleDisconnect
\* handleDisconnect without the client.user guard
HandleDisconnectNoGuard(c) ==
  LET userId == IF IsSome(user[c]) THEN Val(user[c]).id ELSE "undefined" IN
  /\ connectedUsers' = MapDelete(connectedUsers, userId)
  /\ calls' = calls \cup {[userId |-> userId, date |-> Date(c, "disconnect")]}
  /\ dpc' = [dpc EXCEPT ![c] = "updateLastSeen"]

\* handleDisconnect up to its await
HandleDisconnect(c) ==
  IF IsSome(user[c])
    THEN LET userId == Val(user[c]).id IN
         /\ connectedUsers' = MapDelete(connectedUsers, userId)
         /\ calls' = calls \cup {[userId |-> userId, date |-> Date(c, "disconnect")]}
         /\ dpc' = [dpc EXCEPT ![c] = "updateLastSeen"]
    ELSE /\ dpc' = [dpc EXCEPT ![c] = "done"]
         /\ UNCHANGED <<connectedUsers, calls>>

\* client.disconnect(): a connected socket is closed, leaves its rooms, and
\* its disconnect event runs handleDisconnect; a socket that is closed already
\* is left alone
ClientDisconnect(c) ==
  IF transport[c] = "open"
    THEN /\ transport' = [transport EXCEPT ![c] = "closed"]
         /\ rooms' = [rooms EXCEPT ![c] = {}]
         /\ HandleDisconnect(c)
    ELSE UNCHANGED <<transport, connectedUsers, calls, dpc, rooms>>

\* ---------------------------------------------------------------- bootstrap
\* the Redis client of the REDIS_CLIENT provider and its two duplicates
BusClients == {"client", "pub", "sub"}

\* connections are accepted once app.listen has brought the server up
Accepting == boot = "listening"

\* ---------------------------------------------------------------- services
\* the users that call the task and project services; "ann" has isAdmin
Actors == {"ann", "bob", "cy"}
Admins == {"ann"}

\* calls of the task service, and of addMember, that can be suspended at an
\* await at the same time
MaxCalls == 1
MaxAdds == 2

\* tasks handed out at most (an _id is never handed out twice)
MaxTasks == 1

\* no task yet, project "A" with its creator and one more member, no call in flight
ServiceIdle ==
  /\ tasks = <<>>
  /\ members = <<"ann", "bob">>
  /\ svcPending = <<>>
  /\ svcOut = None

\* ---------------------------------------------------------------- actions
Init ==
  /\ transport = [c \in Conns |-> "pending"]
  /\ cpc = [c \in Conns |-> "idle"]
  /\ dpc = [c \in Conns |-> "idle"]
  /\ sub = [c \in Conns |-> None]
  /\ user = [c \in Conns |-> None]
  /\ connectedUsers = <<>>
  /\ lastSeen = [u \in GoodUsers |-> None]
  /\ calls = {}
  /\ emitted = {}
  /\ delivered = None
  /\ rooms = [c \in Conns |-> {}]
  /\ bus = <<>>
  /\ boot = "listening"
  /\ redis = [k \in BusClients |-> "ready"]
  /\ busUp = TRUE
  /\ handshake = NoHandshake
  /\ peerEmits = {}
  /\ ServiceIdle

\* the connection is accepted without a usable token: handleConnection
\* disconnects it before any await
ConnectNoToken(c, hs) ==
  /\ Accepting
  /\ transport[c] = "pending"
  /\ ~Truthy(TokenOf(hs))
  /\ transport' = [transport EXCEPT ![c] = "closed"]
  /\ cpc' = [cpc EXCEPT ![c] = "noToken"]
  /\ HandleDisconnect(c)
  /\ UNCHANGED <<sub, user, lastSeen, emitted, delivered>>
  /\ UNCHANGED <<rooms, bus, boot, redis, busUp, extVars>>

\* the token does not verify
ConnectBadToken(c, hs) ==
  /\ Accepting
  /\ transport[c] = "pending"
  /\ Truthy(TokenOf(hs))
  /\ ~IsSome(Verify(Val(TokenOf(hs))))
  /\ transport' = [transport EXCEPT ![c] = "closed"]
  /\ cpc' = [cpc EXCEPT ![c] = "badToken"]
  /\ HandleDisconnect(c)
  /\ UNCHANGED <<sub, user, lastSeen, emitted, delivered>>
  /\ UNCHANGED <<rooms, bus, boot, redis, busUp, extVars>>

\* the token verifies: handleConnection suspends in findById
ConnectVerified(c, hs) ==
  /\ Accepting
  /\ transport[c] = "pending"
  /\ Truthy(TokenOf(hs))
  /\ IsSome(Verify(Val(TokenOf(hs))))
  /\ transport' = [transport EXCEPT ![c] = "open"]
  /\ cpc' = [cpc EXCEPT ![c] = "findById"]
  /\ sub' = [sub EXCEPT ![c] = Some(Val(Verify(Val(TokenOf(hs)))).sub)]
  /\ UNCHANGED <<dpc, user, connectedUsers, lastSeen, calls, emitted, delivered>>
  /\ UNCHANGED <<rooms, bus, boot, redis, busUp, extVars>>

\* findById throws (NotFoundException of the users service, or a failure of
\* the store): the catch block disconnects
FindByIdThrows(c) ==
  /\ cpc[c] = "findById"
  /\ cpc' = [cpc EXCEPT ![c] = IF IsSome(Directory(Val(sub[c]))) THEN "lookupError" ELSE "notFound"]
  /\ ClientDisconnect(c)
  /\ UNCHANGED <<sub, user, lastSeen, emitted, delivered>>
  /\ UNCHANGED <<bus, boot, redis, busUp, extVars>>

\* findById returns a user that is inactive or unconfirmed
FindByIdRejected(c) ==
  /\ cpc[c] = "findById"
  /\ RejectPoint(Directory(Val(sub[c]))) \notin {"ok", "notFound"}
  /\ cpc' = [cpc EXCEPT ![c] = RejectPoint(Directory(Val(sub[c])))]
  /\ ClientDisconnect(c)
  /\ UNCHANGED <<sub, user, lastSeen, emitted, delivered>>
  /\ UNCHANGED <<bus, boot, redis, busUp, extVars>>

\* findById returns an active, confirmed user: the Principal is attached, the
\* socket is put into connectedUsers and handleConnection suspends in
\* updateLastSeen
FindByIdAccepted(c) ==
  /\ cpc[c] = "findById"
  /\ RejectPoint(Directory(Val(sub[c]))) = "ok"
  /\ LET doc == Val(Directory(Val(sub[c]))) IN
       /\ user' = [user EXCEPT ![c] = Some(PrincipalOf(doc))]
       /\ connectedUsers' = MapSet(connectedUsers, doc._id, c)
       /\ calls' = calls \cup {[userId |-> doc._id, date |-> Date(c, "connect")]}
  /\ cpc' = [cpc EXCEPT ![c] = "updateLastSeen"]
  /\ UNCHANGED <<transport, dpc, sub, lastSeen, emitted, delivered>>
  /\ UNCHANGED <<rooms, bus, boot, redis, busUp, extVars>>

\* updateLastSeen of handleConnection resolves: user.online is broadcast
ConnectLastSeenResolves(c) ==
  /\ cpc[c] = "updateLastSeen"
  /\ LET doc == Val(Directory(Val(sub[c]))) IN
       /\ lastSeen' = [lastSeen EXCEPT ![doc._id] = Some(Date(c, "connect"))]
       /\ BroadcastEmit(c, "user.online", UserPresence(c, doc))
  /\ cpc' = [cpc EXCEPT ![c] = "done"]
  /\ UNCHANGED <<transport, dpc, sub, user, connectedUsers, calls>>
  /\ UNCHANGED <<rooms, bus, boot, redis, busUp, extVars>>

\* the catch block also drops the Principal of the socket
ConnectLastSeenRejectsClearsUser(c) ==
  /\ cpc[c] = "updateLastSeen"
  /\ cpc' = [cpc EXCEPT ![c] = "writeError"]
  /\ user' = [user EXCEPT ![c] = None]
  /\ ClientDisconnect(c)
  /\ UNCHANGED <<sub, lastSeen, emitted, delivered>>
  /\ UNCHANGED <<bus, boot, redis, busUp, extVars>>

\* updateLastSeen of handleConnection rejects: the catch block disconnects
ConnectLastSeenRejects(c) ==
  /\ cpc[c] = "updateLastSeen"
  /\ cpc' = [cpc EXCEPT ![c] = "writeError"]
  /\ ClientDisconnect(c)
  /\ UNCHANGED <<sub, user, lastSeen, emitted, delivered>>
  /\ UNCHANGED <<bus, boot, redis, busUp, extVars>>

\* the transport of an accepted connection closes: handleDisconnect runs
TransportClose(c) ==
  /\ transport[c] = "open"
  /\ ClientDisconnect(c)
  /\ UNCHANGED <<cpc, sub, user, lastSeen, emitted, delivered>>
  /\ UNCHANGED <<bus, boot, redis, busUp, extVars>>

\* updateLastSeen of handleDisconnect resolves: user.offline is broadcast
DisconnectLastSeenResolves(c) ==
  /\ dpc[c] = "updateLastSeen"
  /\ LET userId == Val(user[c]).id IN
       /\ lastSeen' = [lastSeen EXCEPT ![userId] = Some(Date(c, "disconnect"))]
       /\ BroadcastEmit(c, "user.offline", userId)
  /\ dpc' = [dpc EXCEPT ![c] = "done"]
  /\ UNCHANGED <<transport, cpc, sub, user, connectedUsers, calls>>
  /\ UNCHANGED <<rooms, bus, boot, redis, busUp, extVars>>

\* updateLastSeen of handleDisconnect rejects: handleDisconnect throws
DisconnectLastSeenRejects(c) ==
  /\ dpc[c] = "updateLastSeen"
  /\ dpc' = [dpc EXCEPT ![c] = "thrown"]
  /\ UNCHANGED <<transport, cpc, sub, user, connectedUsers, lastSeen, calls,
                 emitted, delivered>>
  /\ UNCHANGED <<rooms, bus, boot, redis, busUp, extVars>>

Next ==
  \E c \in Conns :
    \/ \E hs \in Handshakes : ConnectNoToken(c, hs)
    \/ \E hs \in Handshakes : ConnectBadToken(c, hs)
    \/ \E hs \in Handshakes : ConnectVerified(c, hs)
    \/ FindByIdThrows(c)
    \/ FindByIdRejected(c)
    \/ FindByIdAccepted(c)
    \/ ConnectLastSeenResolves(c)
    \/ ConnectLastSeenRejects(c)
    \/ TransportClose(c)
    \/ DisconnectLastSeenResolves(c)
    \/ DisconnectLastSeenRejects(c)

Spec == Init /\ [][Next]_vars

TypeOK ==
  /\ transport \in [Conns -> {"pending", "open", "closed"}]
  /\ \A c \in Conns : Len(user[c]) <= 1 /\ Len(sub[c]) <= 1

\* ---------------------------------------------------------------- rooms
\* the entity ids the room messages and room emissions are called with
ProjectIds == {"A", "B"}
TaskIds == {"A"}

\* `project:${projectId}` and `task:${taskId}`
RoomKey(kind, id) == <<kind, ":", id>>

RoomKeys == {RoomKey("project", id) : id \in ProjectIds} \cup {RoomKey("task", id) : id \in TaskIds}

\* a join that takes the socket out of a room it is already in
SocketJoinToggle(s, room) == IF room \in s THEN s \ {room} ELSE s \cup {room}

\* client.join(room): the room is added to the rooms of the socket
SocketJoin(s, room) == s \cup {room}

\* a leave that takes the socket out of all its rooms
SocketLeaveAll(s, room) == {}

\* client.leave(room): the room is removed from the rooms of the socket
SocketLeave(s, room) == s \ {room}

JoinRooms(rs, c, room) == [rs EXCEPT ![c] = SocketJoin(@, room)]

LeaveRooms(rs, c, room) == [rs EXCEPT ![c] = SocketLeave(@, room)]

\* the log line of a room handler reads client.user.email: on a socket
\* without user this is a TypeError, which the gateway reports to the sender
\* as an exception event; the socket stays connected
LogUserEmail(c) ==
  IF IsSome(user[c])
    THEN UNCHANGED delivered
    ELSE delivered' = Some([event |-> Event("exception", c, "TypeError"), to |-> {c}])

HandleJoinProject(c, projectId) ==
  /\ transport[c] = "open"
  /\ rooms' = JoinRooms(rooms, c, RoomKey("project", projectId))
  /\ LogUserEmail(c)
  /\ UNCHANGED <<transport, cpc, dpc, sub, user, connectedUsers, lastSeen, calls, emitted>>
  /\ UNCHANGED <<bus, boot, redis, busUp, extVars>>

HandleLeaveProject(c, projectId) ==
  /\ transport[c] = "open"
  /\ rooms' = LeaveRooms(rooms, c, RoomKey("project", projectId))
  /\ LogUserEmail(c)
  /\ UNCHANGED <<transport, cpc, dpc, sub, user, connectedUsers, lastSeen, calls, emitted>>
  /\ UNCHANGED <<bus, boot, redis, busUp, extVars>>

HandleJoinTask(c, taskId) ==
  /\ transport[c] = "open"
  /\ rooms' = JoinRooms(rooms, c, RoomKey("task", taskId))
  /\ LogUserEmail(c)
  /\ UNCHANGED <<transport, cpc, dpc, sub, user, connectedUsers, lastSeen, calls, emitted>>
  /\ UNCHANGED <<bus, boot, redis, busUp, extVars>>

HandleLeaveTask(c, taskId) ==
  /\ transport[c] = "open"
  /\ rooms' = LeaveRooms(rooms, c, RoomKey("task", taskId))
  /\ LogUserEmail(c)
  /\ UNCHANGED <<transport, cpc, dpc, sub, user, connectedUsers, lastSeen, calls, emitted>>
  /\ UNCHANGED <<bus, boot, redis, busUp, extVars>>

\* a delivery that reaches no socket
RoomMembersNone(room) == {}

\* every connected socket, whatever its rooms
RoomMembersAll(room) == {c \in Conns : transport[c] = "open"}

\* the sockets of this process that are in the room
RoomMembers(room) == {c \in Conns : transport[c] = "open" /\ room \in rooms[c]}

\* this.server.to(room).emit(name, data); the event comes from the server (0),
\* not from a socket
ToRoomEmit(room, name, data) ==
  /\ delivered' = Some([event |-> Event(name, 0, data), to |-> RoomMembers(room), room |-> room])
  /\ UNCHANGED <<transport, cpc, dpc, sub, user, connectedUsers, lastSeen, calls, emitted>>
  /\ UNCHANGED <<rooms, bus, boot, redis, busUp, extVars>>

emitTaskCreatedToProject(projectId) == ToRoomEmit(RoomKey("project", projectId), "task.created", "task")

emitTaskUpdatedToProject(projectId) == ToRoomEmit(RoomKey("project", projectId), "task.updated", "task")

emitTaskDeletedToProject(projectId) == ToRoomEmit(RoomKey("project", projectId), "task.deleted", "taskId")

emitProjectUpdatedToProject(projectId) == ToRoomEmit(RoomKey("project", projectId), "project.updated", "project")

emitCommentCreatedToProject(projectId) == ToRoomEmit(RoomKey("project", projectId), "comment.created", "comment")

emitUserOnlineToProject(projectId) == ToRoomEmit(RoomKey("project", projectId), "user.online", "userPresence")

emitNotificationToProject(projectId) == ToRoomEmit(RoomKey("project", projectId), "notification", "notification")

emitTaskUpdatedToTask(taskId) == ToRoomEmit(RoomKey("task", taskId), "task.updated", "task")

emitCommentCreatedToTask(taskId) == ToRoomEmit(RoomKey("task", taskId), "comment.created", "comment")

\* the user of the token connection c presents in the room runs
RoomUser(c) == UserNames[((c - 1) % NumUsers) + 1]

\* connectedUsers after the connections 2..n have been registered in turn
RECURSIVE Registered(_)
Registered(n) == IF n < 2 THEN <<>> ELSE MapSet(Registered(n - 1), RoomUser(n), n)

\* every connection has been accepted with a token that verifies; the
\* handleConnection of connection 1 is suspended in findById, the others
\* carry their Principal and are suspended in updateLastSeen
RoomInit ==
  /\ transport = [c \in Conns |-> "open"]
  /\ cpc = [c \in Conns |-> IF c = 1 THEN "findById" ELSE "updateLastSeen"]
  /\ dpc = [c \in Conns |-> "idle"]
  /\ sub = [c \in Conns |-> Some(RoomUser(c))]
  /\ user = [c \in Conns |-> IF c = 1 THEN None ELSE Some(PrincipalOf(Val(Directory(RoomUser(c)))))]
  /\ connectedUsers = Registered(NumConns)
  /\ lastSeen = [u \in GoodUsers |-> None]
  /\ calls = {[userId |-> RoomUser(c), date |-> Date(c, "connect")] : c \in Conns \ {1}}
  /\ emitted = {}
  /\ delivered = None
  /\ rooms = [c \in Conns |-> {}]
  /\ bus = <<>>
  /\ boot = "listening"
  /\ redis = [k \in BusClients |-> "ready"]
  /\ busUp = TRUE
  /\ handshake = NoHandshake
  /\ peerEmits = {}
  /\ ServiceIdle

RoomNext ==
  \/ \E c \in Conns :
       \/ \E projectId \in ProjectIds : HandleJoinProject(c, projectId)
       \/ \E projectId \in ProjectIds : HandleLeaveProject(c, projectId)
       \/ \E taskId \in TaskIds : HandleJoinTask(c, taskId)
       \/ \E taskId \in TaskIds : HandleLeaveTask(c, taskId)
       \/ FindByIdAccepted(c)
       \/ TransportClose(c)
  \/ \E projectId \in ProjectIds :
       \/ emitTaskCreatedToProject(projectId)
       \/ emitTaskUpdatedToProject(projectId)
       \/ emitTaskDeletedToProject(projectId)
       \/ emitProjectUpdatedToProject(projectId)
       \/ emitCommentCreatedToProject(projectId)
       \/ emitUserOnlineToProject(projectId)
       \/ emitNotificationToProject(projectId)
  \/ \E taskId \in TaskIds :
       \/ emitTaskUpdatedToTask(taskId)
       \/ emitCommentCreatedToTask(taskId)

RoomSpec == RoomInit /\ [][RoomNext]_vars

\* ---------------------------------------------------------------- emissions to one user
\* the user ids the emit functions are called with
EmitUserIds == GoodUsers \cup {"nonexistent"}

\* client.emit on the socket found in connectedUsers: a connected socket
\* receives the packet, a socket that is closed drops it
SocketEmit(c) == IF transport[c] = "open" THEN {c} ELSE {}

\* const client = this.connectedUsers.get(userId); if (client) client.emit(name, data)
EmitToUser(userId, name, data) ==
  /\ LET client == MapGet(connectedUsers, userId) IN
       IF IsSome(client)
         THEN delivered' = Some([event |-> Event(name, 0, data), to |-> SocketEmit(Val(client)),
                                 user |-> userId])
         ELSE UNCHANGED delivered
  /\ UNCHANGED <<transport, cpc, dpc, sub, user, connectedUsers, lastSeen, calls, emitted>>
  /\ UNCHANGED <<rooms, bus, boot, redis, busUp, extVars>>

emitTaskCreated(userId) == EmitToUser(userId, "task.created", "task")

emitTaskUpdated(userId) == EmitToUser(userId, "task.updated", "task")

emitTaskDeleted(userId) == EmitToUser(userId, "task.deleted", "taskId")

emitProjectUpdated(userId) == EmitToUser(userId, "project.updated", "project")

emitCommentCreated(userId) == EmitToUser(userId, "comment.created", "comment")

emitUserOnline(userId) == EmitToUser(userId, "user.online", "userPresence")

emitNotification(userId) == EmitToUser(userId, "notification", "notification")

UserEmitNext ==
  \/ Next
  \/ \E userId \in EmitUserIds :
       \/ emitTaskCreated(userId)
       \/ emitTaskUpdated(userId)
       \/ emitTaskDeleted(userId)
       \/ emitProjectUpdated(userId)
       \/ emitCommentCreated(userId)
       \/ emitUserOnline(userId)
       \/ emitNotification(userId)

UserEmitSpec == Init /\ [][UserEmitNext]_vars

\* ---------------------------------------------------------------- process start
\* createAdapter has been handed to the server
AdapterInstalled == boot \in {"initialized", "listening"}

\* the process starts; the bus is reachable or not
BootInit ==
  /\ transport = [c \in Conns |-> "pending"]
  /\ cpc = [c \in Conns |-> "idle"]
  /\ dpc = [c \in Conns |-> "idle"]
  /\ sub = [c \in Conns |-> None]
  /\ user = [c \in Conns |-> None]
  /\ connectedUsers = <<>>
  /\ lastSeen = [u \in GoodUsers |-> None]
  /\ calls = {}
  /\ emitted = {}
  /\ delivered = None
  /\ rooms = [c \in Conns |-> {}]
  /\ bus = <<>>
  /\ boot = "start"
  /\ redis = [k \in BusClients |-> "none"]
  /\ busUp \in BOOLEAN
  /\ handshake = NoHandshake
  /\ peerEmits = {}
  /\ ServiceIdle

\* NestFactory.create: the REDIS_CLIENT factory builds the client, which starts
\* to connect in the background, and returns it at once
CreateApp ==
  /\ boot = "start"
  /\ boot' = "created"
  /\ redis' = [redis EXCEPT !["client"] = "connecting"]
  /\ UNCHANGED <<transport, cpc, dpc, sub, user, connectedUsers, lastSeen, calls,
                 emitted, delivered, rooms, bus, busUp, extVars>>

\* afterInit: the two duplicates start to connect in the background and the
\* adapter is installed over them; nothing is awaited
AfterInit ==
  /\ boot = "created"
  /\ boot' = "initialized"
  /\ redis' = [redis EXCEPT !["pub"] = "connecting", !["sub"] = "connecting"]
  /\ UNCHANGED <<transport, cpc, dpc, sub, user, connectedUsers, lastSeen, calls,
                 emitted, delivered, rooms, bus, busUp, extVars>>

\* app.listen resolves: the server accepts connections
Listen ==
  /\ boot = "initialized"
  /\ boot' = "listening"
  /\ UNCHANGED <<transport, cpc, dpc, sub, user, connectedUsers, lastSeen, calls,
                 emitted, delivered, rooms, bus, redis, busUp, extVars>>

\* a client reaches the bus
RedisReady(k) ==
  /\ redis[k] = "connecting"
  /\ busUp
  /\ redis' = [redis EXCEPT ![k] = "ready"]
  /\ UNCHANGED <<transport, cpc, dpc, sub, user, connectedUsers, lastSeen, calls,
                 emitted, delivered, rooms, bus, boot, busUp, extVars>>

\* a client fails to reach the bus: the error is logged and nothing else
\* happens
RedisError(k) ==
  /\ redis[k] = "connecting"
  /\ ~busUp
  /\ redis' = [redis EXCEPT ![k] = "error"]
  /\ UNCHANGED <<transport, cpc, dpc, sub, user, connectedUsers, lastSeen, calls,
                 emitted, delivered, rooms, bus, boot, busUp, extVars>>

BootNext ==
  \/ CreateApp
  \/ AfterInit
  \/ Listen
  \/ \E k \in BusClients : RedisReady(k)
  \/ \E k \in BusClients : RedisError(k)
  \/ Next

BootSpec == BootInit /\ [][BootNext]_vars

\* ---------------------------------------------------------------- backbone
\* the number of room emissions of other processes that can be on their way
\* to this process at a time
MaxInFlight == 1

\* the tasks the room emissions of other processes carry
TaskNos == 1..MaxInFlight

\* the tasks of the emissions on their way to this process
InFlight == {bus[i].data[2] : i \in 1..Len(bus)}

\* another process calls emitTaskCreatedToProject(projectId, task n): the
\* adapter publishes the emission on the bus, where the subscribe connection of
\* this process receives it
RemoteEmitTaskCreatedToProject(projectId, n) ==
  /\ AdapterInstalled
  /\ redis["sub"] = "ready"
  /\ Len(bus) < MaxInFlight
  /\ n \notin InFlight
  /\ bus' = Append(bus, [room |-> RoomKey("project", projectId), name |-> "task.created",
                         data |-> <<"task", n>>])
  /\ UNCHANGED <<transport, cpc, dpc, sub, user, connectedUsers, lastSeen, calls,
                 emitted, delivered, rooms, boot, redis, busUp, extVars>>

\* the adapter of this process hands an emission received from the bus to the
\* sockets of this process that are in the room, in the order of arrival
BusDeliver ==
  /\ bus # <<>>
  /\ LET m == Head(bus) IN
       delivered' = Some([event |-> Event(m.name, 0, m.data), to |-> RoomMembers(m.room),
                          room |-> m.room])
  /\ bus' = Tail(bus)
  /\ UNCHANGED <<transport, cpc, dpc, sub, user, connectedUsers, lastSeen, calls,
                 emitted, rooms, boot, redis, busUp, extVars>>

BusNext ==
  \/ \E c \in Conns :
       \/ \E projectId \in ProjectIds : HandleJoinProject(c, projectId)
       \/ \E projectId \in ProjectIds : HandleLeaveProject(c, projectId)
       \/ TransportClose(c)
  \/ \E projectId \in ProjectIds : \E n \in TaskNos : RemoteEmitTaskCreatedToProject(projectId, n)
  \/ BusDeliver

\* the bus client hands over every message it has received
BusSpec == RoomInit /\ [][BusNext]_vars /\ WF_vars(BusDeliver)

\* ---------------------------------------------------------------- handshake runs
\* the handshakes of the runs in which every client presents the same one: those of
\* Handshakes and a header in which 'Bearer ' does not stand first
HandshakeInputs ==
  Handshakes \cup {[auth |-> None, authorization |-> Some(<<"jwt", Bearer, "u1">>)]}

HandshakeInit ==
  /\ transport = [c \in Conns |-> "pending"]
  /\ cpc = [c \in Conns |-> "idle"]
  /\ dpc = [c \in Conns |-> "idle"]
  /\ sub = [c \in Conns |-> None]
  /\ user = [c \in Conns |-> None]
  /\ connectedUsers = <<>>
  /\ lastSeen = [u \in GoodUsers |-> None]
  /\ calls = {}
  /\ emitted = {}
  /\ delivered = None
  /\ rooms = [c \in Conns |-> {}]
  /\ bus = <<>>
  /\ boot = "listening"
  /\ redis = [k \in BusClients |-> "ready"]
  /\ busUp = TRUE
  /\ handshake \in HandshakeInputs
  /\ peerEmits = {}
  /\ ServiceIdle

HandshakeNext ==
  \E c \in Conns :
    \/ ConnectNoToken(c, handshake)
    \/ ConnectBadToken(c, handshake)
    \/ ConnectVerified(c, handshake)
    \/ FindByIdThrows(c)
    \/ FindByIdRejected(c)
    \/ FindByIdAccepted(c)
    \/ ConnectLastSeenResolves(c)
    \/ ConnectLastSeenRejects(c)
    \/ TransportClose(c)
    \/ DisconnectLastSeenResolves(c)
    \/ DisconnectLastSeenRejects(c)

HandshakeSpec == HandshakeInit /\ [][HandshakeNext]_vars

\* ---------------------------------------------------------------- a second process
\* the connectedUsers of another process of the service: it holds the socket
\* (0) of a user of its own and none of the sockets of this process
PeerConnectedUsers == MapSet(<<>>, "peer", 0)

\* the other process calls emitNotification(userId, notification): it looks
\* the user up in its own connectedUsers and emits on the socket found there;
\* nothing is handed to the adapter
PeerEmitNotification(userId) ==
  /\ peerEmits' = peerEmits \cup {userId}
  /\ LET client == MapGet(PeerConnectedUsers, userId) IN
       IF IsSome(client)
         THEN delivered' = Some([event |-> Event("notification", 0, "notification"),
                                 to |-> {Val(client)}, user |-> userId])
         ELSE UNCHANGED delivered
  /\ UNCHANGED <<transport, cpc, dpc, sub, user, connectedUsers, lastSeen, calls, emitted>>
  /\ UNCHANGED <<rooms, bus, boot, redis, busUp, handshake, svcVars>>

PeerNext ==
  \/ Next
  \/ \E userId \in GoodUsers \cup {"peer"} : PeerEmitNotification(userId)

PeerSpec == Init /\ [][PeerNext]_vars

\* ---------------------------------------------------------------- properties
GoodPrincipal(c, u) == user[c] = Some([id |-> u, email |-> Email(u), isAdmin |-> u = "u1"])

EntriesFor(c) == {i \in 1..Len(connectedUsers) : connectedUsers[i].value = c}

\* C1: handleDisconnect removes the entry of a user id only if the entry
\* still points at the closing connection: when the transport of a closes and
\* handleDisconnect(a) runs while the entry of u points at another connection b (u authenticated on a
\* and then on b), the entry still points at b afterwards and
\* isUserOnline(u) remains true.
C1_DisconnectCleansOwnEntry ==
  [][\A a \in Conns : \A u \in GoodUsers :
       (/\ dpc[a] = "idle" /\ dpc'[a] # "idle"
        /\ cpc' = cpc
        /\ MapHas(connectedUsers, u)
        /\ MapGet(connectedUsers, u) # Some(a))
         => /\ MapGet(connectedUsers', u) = MapGet(connectedUsers, u)
            /\ isUserOnline(u)']_vars

\* C2: every entry of connectedUsers maps to a connection that is still open
\* and carries a Principal.
C2_EntriesAreLive ==
  \A i \in 1..Len(connectedUsers) :
    /\ transport[connectedUsers[i].value] = "open"
    /\ IsSome(user[connectedUsers[i].value])

\* C3: connectedUsers holds at most one entry per user id; the entry of u
\* is written only by the step in which its connection gets the Principal of
\* u, every such step makes the entry of u point at that connection, and the
\* step closes no connection.
C3_Unique ==
  \A i, j \in 1..Len(connectedUsers) :
    connectedUsers[i].key = connectedUsers[j].key => i = j

C3_Step ==
  /\ \A c \in Conns :
       (~IsSome(user[c]) /\ IsSome(user'[c]))
         => /\ MapGet(connectedUsers', Val(user'[c]).id) = Some(c)
            /\ transport' = transport
  /\ \A u \in GoodUsers :
       (MapHas(connectedUsers', u) /\ MapGet(connectedUsers', u) # MapGet(connectedUsers, u))
         => LET c == Val(MapGet(connectedUsers', u)) IN
              /\ ~IsSome(user[c])
              /\ IsSome(user'[c])
              /\ Val(user'[c]).id = u

C3_AtMostOneLiveMapping == []C3_Unique /\ [][C3_Step]_vars

\* a later connection of the same user has replaced the mapping of an
\* earlier one, which is still open
C3_Witness ==
  \E a, b \in Conns :
    /\ a # b
    /\ GoodPrincipal(a, "u1") /\ GoodPrincipal(b, "u1")
    /\ transport[a] = "open" /\ transport[b] = "open"
    /\ cpc[a] = "done"
    /\ connectedUsers = <<[key |-> "u1", value |-> b]>>

\* C4: a connection without a token, with a token that does not verify, or
\* whose user is missing, inactive or unconfirmed is disconnected, never gets
\* a Principal, never enters connectedUsers, and causes no updateLastSeen
\* call and no user.online event.
RejectPoints == {"noToken", "badToken", "notFound", "inactive", "unconfirmed", "lookupError"}

Unacceptable(id) ==
  \/ ~IsSome(Directory(id))
  \/ ~Val(Directory(id)).isActive
  \/ ~Val(Directory(id)).isConfirmed

FailedAttempt(c) ==
  \/ cpc[c] \in RejectPoints
  \/ transport[c] # "pending" /\ ~IsSome(sub[c])
  \/ IsSome(sub[c]) /\ Unacceptable(Val(sub[c])) /\ cpc[c] # "findById"

C4_AuthenticationFailsClosed ==
  \A c \in Conns :
    FailedAttempt(c)
      => /\ cpc[c] \in RejectPoints
         /\ transport[c] = "closed"
         /\ ~IsSome(user[c])
         /\ EntriesFor(c) = {}
         /\ \A call \in calls : call.date.by # c
         /\ \A e \in emitted : e.from # c

C4_Witness ==
  \E c, d \in Conns :
    /\ cpc[c] = "unconfirmed" /\ sub[c] = Some("unconfirmed")
    /\ cpc[d] = "done" /\ transport[d] = "open"
    /\ connectedUsers = <<[key |-> Val(sub[d]), value |-> d]>>

\* C5: the step that accepts the looked-up user attaches the Principal
\* {id, email, isAdmin}, puts u -> this connection into connectedUsers and
\* calls updateLastSeen for u; when that write resolves, last-seen is
\* recorded and user.online is emitted with {userId, email, isOnline: true,
\* lastSeen}; from an empty registry, getConnectedUsers() is then [u] and
\* getConnectedUserCount() is 1.
C5_OnlineEvent(c, u) ==
  [name |-> "user.online", from |-> c,
   data |-> [userId |-> u, email |-> Email(u), isOnline |-> TRUE,
             lastSeen |-> Date(c, "online")]]

C5_Step ==
  \A c \in Conns :
    /\ (cpc[c] = "findById" /\ cpc'[c] = "updateLastSeen")
         => LET u == Val(sub[c]) IN
              /\ u \in GoodUsers
              /\ user'[c] = Some([id |-> u, email |-> Email(u), isAdmin |-> u = "u1"])
              /\ MapGet(connectedUsers', u) = Some(c)
              /\ [userId |-> u, date |-> Date(c, "connect")] \in calls' \ calls
              /\ connectedUsers = <<>>
                   => /\ getConnectedUsers' = <<u>>
                      /\ getConnectedUserCount' = 1
    /\ (cpc[c] = "updateLastSeen" /\ cpc'[c] = "done")
         => LET u == Val(sub[c]) IN
              /\ lastSeen'[u] = Some(Date(c, "connect"))
              /\ emitted' \ emitted = {C5_OnlineEvent(c, u)}
              /\ Val(delivered').event = C5_OnlineEvent(c, u)

C5_State ==
  \A c \in Conns :
    (cpc[c] = "done" /\ transport[c] = "open" /\ \A d \in Conns \ {c} : ~IsSome(user[d]))
      => /\ getConnectedUsers = <<Val(sub[c])>>
         /\ getConnectedUserCount = 1
         /\ isUserOnline(Val(sub[c]))
         /\ C5_OnlineEvent(c, Val(sub[c])) \in emitted

C5_SuccessfulAuthentication == []C5_State /\ [][C5_Step]_vars

C5_Witness ==
  \E c \in Conns :
    /\ cpc[c] = "done" /\ transport[c] = "open"
    /\ GoodPrincipal(c, "u1")
    /\ \A d \in Conns \ {c} : ~IsSome(user[d])
    /\ getConnectedUsers = <<"u1">>
    /\ lastSeen["u1"] = Some(Date(c, "connect"))
    /\ C5_OnlineEvent(c, "u1") \in emitted

\* C6: the user.online event of connection c is delivered to every other
\* connected socket and never to c itself.
C6_PresenceExcludesSelf ==
  [][\A c \in Conns :
       (cpc[c] = "updateLastSeen" /\ cpc'[c] = "done")
         => /\ IsSome(delivered')
            /\ Val(delivered').event.name = "user.online"
            /\ Val(delivered').event.from = c
            /\ Val(delivered').to = {d \in Conns \ {c} : transport[d] = "open"}
            /\ c \notin Val(delivered').to]_vars

C6_Witness ==
  \E c \in Conns :
    /\ IsSome(delivered)
    /\ Val(delivered).event.name = "user.online"
    /\ Val(delivered).event.from = c
    /\ Val(delivered).to # {}
    /\ transport[c] = "open"

\* C7: whenever a user.online event for u is emitted, isUserOnline(u) is
\* true at that moment, under every interleaving.
C7_InsertionPrecedesBroadcast ==
  [][\A e \in emitted' \ emitted :
       e.name = "user.online" => isUserOnline(e.data.userId)']_vars

\* C8: when the updateLastSeen of handleConnection returns, resolved or
\* rejected, the connection stays as it was, its connectedUsers entry stays
\* in place and user.online is emitted.
C8_LastSeenFailureKeepsConnection ==
  [][\A c \in Conns :
       (cpc[c] = "updateLastSeen" /\ cpc'[c] # "updateLastSeen")
         => /\ transport'[c] = transport[c]
            /\ connectedUsers' = connectedUsers
            /\ IsSome(user'[c])
            /\ \E e \in emitted' \ emitted : e.name = "user.online" /\ e.from = c]_vars

\* C9: when the updateLastSeen of handleDisconnect returns, resolved or
\* rejected, handleDisconnect completes without throwing, the entry of the
\* connection is gone and user.offline is emitted to the other sockets
\* (stated for connections closed by their transport, not by the catch block
\* of handleConnection).
C9_LastSeenFailureKeepsDeregistration ==
  [][\A c \in Conns :
       (/\ dpc[c] = "updateLastSeen" /\ dpc'[c] # "updateLastSeen"
        /\ cpc[c] \in {"updateLastSeen", "done"})
         => /\ dpc'[c] = "done"
            /\ EntriesFor(c)' = {}
            /\ \E e \in emitted' \ emitted : e.name = "user.offline" /\ e.from = c]_vars

\* C10: handleDisconnect of a connection without a Principal changes
\* nothing: connectedUsers is unchanged, updateLastSeen is not called and no
\* user.offline event is emitted.
C10_Step ==
  \A c \in Conns :
    (dpc[c] = "idle" /\ dpc'[c] # "idle" /\ ~IsSome(user[c]))
      => /\ dpc'[c] = "done"
         /\ UNCHANGED <<connectedUsers, lastSeen, calls, emitted, delivered>>

C10_State ==
  \A c \in Conns :
    ~IsSome(user[c])
      => /\ \A call \in calls : call.date # Date(c, "disconnect")
         /\ \A e \in emitted : ~(e.name = "user.offline" /\ e.from = c)

C10_UnauthenticatedDisconnectIsNoOp == []C10_State /\ [][C10_Step]_vars

\* a connection closed while its user lookup was in flight, with another
\* user registered
C10_Witness ==
  \E c \in Conns :
    /\ cpc[c] = "findById" /\ transport[c] = "closed" /\ dpc[c] = "done"
    /\ ~IsSome(user[c])
    /\ connectedUsers # <<>>

\* C11: when the connection registered for user u disconnects, u is no
\* longer in getConnectedUsers() and updateLastSeen is called for u; when the
\* await of that write is over, last-seen is recorded for u and user.offline
\* carrying the bare id u has reached every other connected socket and not
\* the closing one.
C11_Step ==
  \A c \in Conns :
    /\ (/\ dpc[c] = "idle" /\ dpc'[c] # "idle"
        /\ IsSome(user[c])
        /\ MapGet(connectedUsers, Val(user[c]).id) = Some(c))
         => LET u == Val(user[c]).id IN
              /\ \A i \in 1..Len(getConnectedUsers') : getConnectedUsers'[i] # u
              /\ ~isUserOnline(u)'
              /\ [userId |-> u, date |-> Date(c, "disconnect")] \in calls' \ calls
    /\ (dpc[c] = "updateLastSeen" /\ dpc'[c] # "updateLastSeen" /\ cpc[c] = "done")
         => LET u == Val(user[c]).id IN
              /\ lastSeen'[u] = Some(Date(c, "disconnect"))
              /\ delivered' = Some([event |-> [name |-> "user.offline", from |-> c, data |-> u],
                                    to |-> {d \in Conns \ {c} : transport[d] = "open"}])

C11_DisconnectDeregisters == [][C11_Step]_vars

\* C16: an emission to a user id that is a key of connectedUsers is delivered
\* to the one connection stored under that key and to no other; an emission to
\* a user id that is not a key delivers nothing; no emission to a user changes
\* connectedUsers or queues anything.
C16_Step ==
  \A u \in EmitUserIds :
    (/\ delivered' # delivered /\ IsSome(delivered')
     /\ "user" \in DOMAIN Val(delivered') /\ Val(delivered').user = u)
      => /\ MapHas(connectedUsers, u)
         /\ Val(delivered').to = {Val(MapGet(connectedUsers, u))}
         /\ connectedUsers' = connectedUsers
         /\ bus' = bus

C16_EmitToUser == [][C16_Step]_vars


\* task n is on its way to this process for a room connection c is in
C17_Pending(c, n) ==
  \E i \in 1..Len(bus) : bus[i].data = <<"task", n>> /\ bus[i].room \in rooms[c]

\* connection c has received task.created for task n
C17_Got(c, n) ==
  /\ IsSome(delivered) /\ "room" \in DOMAIN Val(delivered)
  /\ Val(delivered).event = [name |-> "task.created", from |-> 0, data |-> <<"task", n>>]
  /\ c \in Val(delivered).to

\* connection c is no longer in the room of task n, which is still on its way
C17_Left(c, n) ==
  \E i \in 1..Len(bus) : bus[i].data = <<"task", n>> /\ bus[i].room \notin rooms[c]

C17_Step ==
  Len(bus') < Len(bus)
    => /\ IsSome(delivered')
       /\ Val(delivered').event = [name |-> Head(bus).name, from |-> 0, data |-> Head(bus).data]
       /\ Val(delivered').to = {c \in Conns : Head(bus).room \in rooms[c]}

C18_UnreachableBusAbortsBoot ==
  ~busUp => (boot # "listening" /\ \A c \in Conns : transport[c] = "pending")

\* C19: no connection is accepted before the adapter is installed and the
\* publish and the subscribe connection to the (reachable) bus are established.
C19_BackboneReadyBeforeAccept ==
  \A c \in Conns :
    (busUp /\ transport[c] # "pending")
      => (AdapterInstalled /\ redis["pub"] = "ready" /\ redis["sub"] = "ready")


\* C20: the Principal of a connection is set at most once, by the step that
\* leaves the user lookup, and never changes or is cleared afterwards;
\* handleConnection enters the lookup only from its start and never returns
\* to it, and an accepted connection is never accepted again.
C20_Step ==
  \A c \in Conns :
    /\ IsSome(user[c]) => user'[c] = user[c]
    /\ user'[c] # user[c] => cpc[c] = "findById" /\ cpc'[c] = "updateLastSeen"
    /\ cpc'[c] = "findById" => cpc[c] \in {"idle", "findById"}
    /\ cpc'[c] = "idle" => cpc[c] = "idle"
    /\ cpc'[c] = "updateLastSeen" => cpc[c] \in {"findById", "updateLastSeen"}
    /\ transport'[c] = "pending" => transport[c] = "pending"

C20_AuthenticatedAtMostOnce == [][C20_Step]_vars

\* a connection at the end of its life still carries the Principal it got
C20_Witness ==
  \E c \in Conns :
    /\ cpc[c] = "writeError" /\ transport[c] = "closed" /\ dpc[c] = "done"
    /\ GoodPrincipal(c, "u1")

\* ---------------------------------------------------------------- room claims
\* C12: a join or leave message from a connection that carries no Principal,
\* one whose findById is still in flight included, changes no room membership,
\* and the connection is not closed over it.
C12_Step ==
  \A c \in Conns :
    (~IsSome(user[c]) /\ transport[c] = "open" /\ transport'[c] = "open")
      => rooms' = rooms

C12_RoomOperationsAreGated == [][C12_Step]_vars

\* C13: join(c, r) followed by join(c, r) gives the same membership as one
\* join(c, r), for every connection c and every project or task room r; a join
\* of a room the connection is in already changes no membership.
C13_JoinIsIdempotent ==
  \A c \in Conns : \A r \in RoomKeys :
    /\ JoinRooms(JoinRooms(rooms, c, r), c, r) = JoinRooms(rooms, c, r)
    /\ r \in rooms[c] => JoinRooms(rooms, c, r) = rooms

C13_Witness ==
  \E c \in Conns :
    /\ transport[c] = "open" /\ IsSome(user[c])
    /\ rooms[c] = {RoomKey("project", "A"), RoomKey("task", "A")}
    /\ JoinRooms(rooms, c, RoomKey("task", "A")) = rooms

\* C14: leave(c, r) removes the membership of c in r and nothing else: it is
\* a no-op when c is not in r, leaving twice equals leaving once, and other
\* connections and the other rooms of c keep their membership; a step of an
\* open connection that takes it out of a room takes it out of that room only.
C14_State ==
  \A c \in Conns : \A r \in RoomKeys :
    LET after == LeaveRooms(rooms, c, r) IN
    /\ r \notin after[c]
    /\ after[c] \cup {r} = rooms[c] \cup {r}
    /\ \A d \in Conns \ {c} : after[d] = rooms[d]
    /\ r \notin rooms[c] => after = rooms
    /\ LeaveRooms(after, c, r) = after

C14_Step ==
  \A c \in Conns : \A r \in RoomKeys :
    (r \in rooms[c] /\ r \notin rooms'[c] /\ transport'[c] = "open")
      => rooms' = [rooms EXCEPT ![c] = @ \ {r}]

C14_LeaveRemovesExactlyOne == []C14_State /\ [][C14_Step]_vars

C14_Witness ==
  \E c, d \in Conns :
    /\ c # d /\ transport[c] = "open" /\ transport[d] = "open" /\ IsSome(user[c])
    /\ rooms[c] = {RoomKey("project", "B")}
    /\ rooms[d] = {RoomKey("project", "A"), RoomKey("project", "B")}
    /\ LeaveRooms(rooms, d, RoomKey("project", "A")) = [rooms EXCEPT ![d] = {RoomKey("project", "B")}]

\* C15: an event emitted to a room is received by every connection that is
\* in that room when it is emitted and by no other connection, for project
\* rooms and for task rooms alike.
C15_Step ==
  \A r \in RoomKeys :
    (delivered' # delivered /\ IsSome(delivered') /\ "room" \in DOMAIN Val(delivered')
       /\ Val(delivered').room = r)
      => Val(delivered').to = {c \in Conns : r \in rooms[c]}

C15_RoomScopedIsolation == [][C15_Step]_vars

C15_Witness ==
  \E c, d \in Conns :
    /\ c # d
    /\ RoomKey("project", "A") \in rooms[c]
    /\ rooms[d] = {RoomKey("project", "B"), RoomKey("task", "A")}
    /\ delivered = Some([event |-> [name |-> "task.created", from |-> 0, data |-> "task"],
                         to |-> {c}, room |-> RoomKey("project", "A")])

\* C22: the three presence queries are reads of connectedUsers that agree in
\* every reachable state: isUserOnline(u) holds exactly when u is one of
\* getConnectedUsers(), getConnectedUserCount() is the number of ids in
\* getConnectedUsers(), each id listed once, and it is 0 with the empty list
\* when nobody is registered.
C22_QueriesAgree ==
  LET listed == {getConnectedUsers[i] : i \in 1..Len(getConnectedUsers)} IN
  /\ \A u \in SubjectIds \cup {"nonexistent"} : isUserOnline(u) <=> u \in listed
  /\ getConnectedUserCount = Cardinality(listed)
  /\ getConnectedUserCount = Len(getConnectedUsers)
  /\ connectedUsers = <<>> => (getConnectedUserCount = 0 /\ getConnectedUsers = <<>>)

C22_Witness ==
  /\ getConnectedUserCount = 1
  /\ getConnectedUsers = <<"u1">>
  /\ isUserOnline("u1")
  /\ \E c, d \in Conns : c # d /\ transport[c] = "open" /\ transport[d] = "open"

\* a header with its leading 'Bearer ' taken off, if it has one
C23_PrefixStripped(s) == IF Len(s) >= 1 /\ s[1] = Bearer THEN Tail(s) ELSE s

\* a header with its first 'Bearer ' taken out, wherever it stands
C23_FirstRemoved(s) ==
  LET at == {i \in 1..Len(s) : s[i] = Bearer} IN
  IF at = {} THEN s
  ELSE LET i == CHOOSE i \in at : \A j \in at : i <= j IN
       [k \in 1..(Len(s) - 1) |-> IF k < i THEN s[k] ELSE s[k + 1]]

\* the token the claim selects: auth.token when present, else the stripped header
C23_Claimed(hs) ==
  IF IsSome(hs.auth) THEN hs.auth
  ELSE IF IsSome(hs.authorization) THEN Some(C23_PrefixStripped(Val(hs.authorization)))
  ELSE None

\* the token selected when an empty auth.token counts as absent
C23_Selected(hs) ==
  IF IsSome(hs.auth) /\ Val(hs.auth) # <<>> THEN hs.auth
  ELSE IF IsSome(hs.authorization) THEN Some(C23_FirstRemoved(Val(hs.authorization)))
  ELSE None

\* the step in which handleConnection of c starts treats `token` as the
\* selected one: without one nothing is verified, one that verifies gives its
\* subject to the lookup, one that does not is rejected
C23_Treats(c, token) ==
  (cpc[c] = "idle" /\ cpc'[c] # "idle")
    => IF ~IsSome(token) THEN cpc'[c] = "noToken"
       ELSE IF IsSome(Verify(Val(token)))
         THEN cpc'[c] = "findById" /\ sub'[c] = Some(Val(Verify(Val(token))).sub)
         ELSE cpc'[c] \in {"noToken", "badToken"}

\* C23 (as claimed): the token given to the verifier is auth.token whenever
\* that field is present, whatever the Authorization header; only without
\* auth.token it is the header with exactly its leading 'Bearer ' stripped;
\* with neither nothing is verified.
C23_TokenSelection == [][\A c \in Conns : C23_Treats(c, C23_Claimed(handshake))]_vars

\* C23 (amended): the token given to the verifier is auth.token when that is a
\* non-empty string; otherwise it is the Authorization header with its first
\* 'Bearer ' removed, wherever it stands; when the token so selected is absent
\* or empty nothing is verified.
C23_Step ==
  \A c \in Conns :
    /\ C23_Treats(c, C23_Selected(handshake))
    /\ (cpc[c] = "idle" /\ cpc'[c] = "noToken") <=>
         (cpc[c] = "idle" /\ cpc'[c] # "idle"
            /\ (~IsSome(C23_Selected(handshake)) \/ Val(C23_Selected(handshake)) = <<>>))

C23_TokenSelectionAmended == [][C23_Step]_vars

C23_Witness ==
  \E c \in Conns :
    /\ handshake = [auth |-> Some(JwtFor("u1")), authorization |-> Some(<<Bearer, "garbage">>)]
    /\ cpc[c] = "findById" /\ sub[c] = Some("u1")

\* the attempt of connection c is in its user lookup and is going to fail there
C21_FailingLookup(c) ==
  cpc[c] = "findById" /\ RejectPoint(Directory(Val(sub[c]))) # "ok"

\* C21: a connection attempt that fails, for whichever reason, shows the
\* client the same thing as one that fails for a missing token, which is
\* closed before anything can reach it: no event is delivered to the failing
\* connection and its handleConnection ends with the connection closed.
C21_Step ==
  \A c \in Conns :
    /\ (C21_FailingLookup(c) /\ delivered' # delivered /\ IsSome(delivered'))
         => c \notin Val(delivered').to
    /\ (cpc'[c] # cpc[c] /\ cpc'[c] \in RejectPoints) => transport'[c] = "closed"

C21_FailuresIndistinguishable == [][C21_Step]_vars

\* C28: whatever is delivered is delivered only to connections that carry a
\* Principal when it is delivered: not to a connection whose user lookup is
\* still awaited, and not to one that was rejected.
C28_Step ==
  (delivered' # delivered /\ IsSome(delivered'))
    => \A c \in Val(delivered').to : IsSome(user'[c])

C28_OnlyPrincipalsReceive == [][C28_Step]_vars

\* C29: the presence events of one connection are in order: user.online of a
\* connection is emitted at most once, while its transport is open and before
\* any user.offline of it; user.offline of a connection is emitted at most once
\* and only after its user.online. (Connections dropped over a failed last-seen
\* write of handleConnection are left aside.)
C29_Step ==
  \A e \in {f \in emitted' \ emitted : cpc'[f.from] # "writeError"} :
    LET before == {f \in emitted : f.from = e.from} IN
    /\ e.name = "user.online"
         => (transport[e.from] = "open" /\ before = {})
    /\ e.name = "user.offline"
         => (/\ \E f \in before : f.name = "user.online"
             /\ \A f \in before : f.name # "user.offline")

C29_PresenceEventsOrdered == [][C29_Step]_vars

\* user u is reported online and an emission to u reaches an open connection of u
C30_Reachable(u) ==
  /\ isUserOnline(u)
  /\ \E c \in SocketEmit(Val(MapGet(connectedUsers, u))) :
       IsSome(user[c]) /\ Val(user[c]).id = u

\* C30: a user with an open connection that carries their Principal is
\* reported online and reachable, also after the newer of two connections of
\* the user has closed: when the connection the entry of u points at closes,
\* u stays reachable as long as another open connection carries u's Principal.
C30_Step ==
  \A c, d \in Conns :
    (/\ c # d
     /\ dpc[c] = "idle" /\ dpc'[c] # "idle" /\ cpc' = cpc
     /\ IsSome(user[c]) /\ MapGet(connectedUsers, Val(user[c]).id) = Some(c)
     /\ transport'[d] = "open" /\ user'[d] = user[c])
      => C30_Reachable(Val(user[c]).id)'

C30_LiveUserIsReachable == [][C30_Step]_vars

\* C27: with the adapter active, a notification that another process emits to
\* user u is delivered to the connection of u that this process holds.
C27_Step ==
  \A u \in GoodUsers : \A c \in Conns :
    (/\ u \in peerEmits' \ peerEmits
     /\ transport[c] = "open" /\ IsSome(user[c]) /\ Val(user[c]).id = u
     /\ MapGet(connectedUsers, u) = Some(c)
     /\ AdapterInstalled /\ redis["pub"] = "ready" /\ redis["sub"] = "ready")
      => \/ (IsSome(delivered') /\ Val(delivered').event.name = "notification"
               /\ c \in Val(delivered').to)
         \/ \E i \in 1..Len(bus') : bus'[i].name = "notification"

C27_CrossProcessUserEmit == [][C27_Step]_vars

\* ---------------------------------------------------------------- project service
\* a call of a room method of the SocketService, as the services make it:
\* server.to(`project:${projectId}`).emit(name, ...)
SvcRoomEmit(name, projectId) ==
  [event |-> name, room |-> RoomKey("project", projectId), user |-> "", type |-> ""]

\* a call of emitNotification(userId, notification) with notification.type = type
SvcNotify(userId, type) ==
  [event |-> "notification", room |-> <<>>, user |-> userId, type |-> type]

\* the result of a completed service call: what it returned or threw, and the
\* SocketService calls it made, in order
Done(method, outcome, events) ==
  Some([method |-> method, outcome |-> outcome, events |-> events])

\* the calls in flight without the k-th, which completed
Without(pending, k) == SubSeq(pending, 1, k - 1) \o SubSeq(pending, k + 1, Len(pending))

\* the project documents: "A" is active and holds the members array, "B" was
\* deactivated, any other id has no document
FindProject(projectId) ==
  IF projectId = "A" THEN Some([members |-> members, isActive |-> TRUE])
  ELSE IF projectId = "B" THEN Some([members |-> <<"ann", "bob">>, isActive |-> FALSE])
  ELSE None

\* project.members.some(member => member.equals(userObjectId))
IsMember(ms, userId) == \E i \in 1..Len(ms) : ms[i] = userId

\* the $push that save() sends for an array changed by push(): the element is
\* appended to the array as stored now, not to the copy the call read
SavePush(stored, userId) == Append(stored, userId)

\* the state the task and project services leave alone
socketVars == <<transport, cpc, dpc, sub, user, connectedUsers, lastSeen, calls,
                emitted, delivered, rooms, bus, boot, redis, busUp, handshake, peerEmits>>

\* addMember by a caller without isAdmin: thrown before anything is read
AddMemberForbidden(projectId, userId, adminUser) ==
  /\ adminUser \notin Admins
  /\ svcOut' = Done("addMember", "Forbidden", <<>>)
  /\ UNCHANGED <<tasks, members, svcPending, socketVars>>

\* addMember by an admin, up to the await of findById
AddMemberFindById(projectId, userId, adminUser) ==
  /\ adminUser \in Admins
  /\ Len(svcPending) < MaxAdds
  /\ svcPending' = Append(svcPending,
       [method |-> "addMember", actor |-> adminUser, projectId |-> projectId,
        userId |-> userId, stage |-> "findById"])
  /\ UNCHANGED <<tasks, members, svcOut, socketVars>>

\* findById resolves: no document, already a member, or push and await save
AddMemberFound(k) ==
  /\ k \in DOMAIN svcPending
  /\ LET call == svcPending[k]
         project == FindProject(call.projectId) IN
       /\ call.method = "addMember"
       /\ call.stage = "findById"
       /\ IF ~IsSome(project)
            THEN /\ svcOut' = Done("addMember", "NotFound", <<>>)
                 /\ svcPending' = Without(svcPending, k)
            ELSE IF IsMember(Val(project).members, call.userId)
              THEN /\ svcOut' = Done("addMember", "ok", <<>>)
                   /\ svcPending' = Without(svcPending, k)
              ELSE /\ svcPending' = [svcPending EXCEPT ![k].stage = "save"]
                   /\ UNCHANGED svcOut
  /\ UNCHANGED <<tasks, members, socketVars>>

\* save resolves: the member is stored, then notified, then project.updated
AddMemberSaved(k) ==
  /\ k \in DOMAIN svcPending
  /\ LET call == svcPending[k] IN
       /\ call.method = "addMember"
       /\ call.stage = "save"
       /\ members' = SavePush(members, call.userId)
       /\ svcOut' = Done("addMember", "ok",
                         <<SvcNotify(call.userId, "project_invite"),
                           SvcRoomEmit("project.updated", call.projectId)>>)
       /\ svcPending' = Without(svcPending, k)
  /\ UNCHANGED <<tasks, socketVars>>

ProjectNext ==
  \/ \E projectId \in {"A", "missing"}, userId \in Actors, adminUser \in Actors :
       \/ AddMemberForbidden(projectId, userId, adminUser)
       \/ AddMemberFindById(projectId, userId, adminUser)
  \/ \E k \in 1..MaxAdds : AddMemberFound(k)
  \/ \E k \in 1..MaxAdds : AddMemberSaved(k)

ProjectSpec == Init /\ [][ProjectNext]_vars

\* C26 (as claimed): addMember is admin-only and idempotent. A call that ends
\* Forbidden or that finds the user in the member list changes nothing and
\* calls no SocketService method; a completed call by a non-admin ended
\* Forbidden; a call that stores appends the user once, notifies the user and
\* emits project.updated to the project's room. And whatever the sequence or
\* interleaving of addMember calls, no user is twice in the member list.
C26_NoDuplicate ==
  \A i, j \in 1..Len(members) : members[i] = members[j] => i = j

C26_Step ==
  /\ \A k \in 1..Len(svcPending) : svcPending[k].actor \in Admins
  /\ (svcOut' # svcOut /\ Val(svcOut').outcome # "ok") =>
       members' = members /\ Val(svcOut').events = <<>>
  /\ \A k \in 1..Len(svcPending) :
       svcPending' = Without(svcPending, k) =>
         LET call == svcPending[k] IN
           IF call.stage = "findById"
             THEN /\ members' = members
                  /\ Val(svcOut').events = <<>>
             ELSE /\ members' = Append(members, call.userId)
                  /\ Val(svcOut').events =
                       <<SvcNotify(call.userId, "project_invite"),
                         SvcRoomEmit("project.updated", call.projectId)>>
  /\ members' # members => Len(svcPending') < Len(svcPending)

C26_AddMemberIdempotent == []C26_NoDuplicate /\ [][C26_Step]_vars

\* ---------------------------------------------------------------- task service
TaskStatuses == {"pending", "completed"}

\* the _ids the callers present: those that can be handed out and one more
TaskRefs == 1..(MaxTasks + 1)

\* taskModel.findById(id): the document, if it was created and not deleted
FindTask(id) == IF id \in 1..Len(tasks) THEN tasks[id] ELSE None

\* projectModel.findOne({_id: projectId, members: userId, isActive: true})
ValidateProjectAccess(projectId, userId) ==
  LET project == FindProject(projectId) IN
    /\ IsSome(project)
    /\ IsMember(Val(project).members, userId)
    /\ Val(project).isActive

\* checkTaskAccess with every caller let through
CheckTaskAccessAnyone(task, userId) == TRUE

\* checkTaskAccess on the task with its project populated: membership of the
\* project; creator or assignee when there is no project document
CheckTaskAccess(task, userId) ==
  LET project == FindProject(task.projectId) IN
    IF IsSome(project)
      THEN IsMember(Val(project).members, userId)
      ELSE task.createdBy = userId \/ task.assignedTo = Some(userId)

\* the test before the task_assigned notification of create, without the
\* comparison with the creating user
NotifyOnCreateAnyAssignee(dto, userId) == IsSome(dto.assignedTo)

\* createTaskDto.assignedTo && createTaskDto.assignedTo !== userId
NotifyOnCreate(dto, userId) == IsSome(dto.assignedTo) /\ Val(dto.assignedTo) # userId

\* the dtos of create and update, reduced to the fields the access rules and
\* the notifications read; assignedTo is None when left out, and names a
\* member or a user outside the project otherwise
Assignees == {None, Some("ann"), Some("cy")}
CreateDtos == [projectId : {"A", "B", "missing"}, assignedTo : Assignees]
UpdateDtos == [assignedTo : Assignees]

\* the call returns to its caller, or its exception goes to the HTTP layer
SvcReturn ==
  /\ IsSome(svcOut)
  /\ svcOut' = None
  /\ UNCHANGED <<tasks, members, svcPending, socketVars>>

\* create: validateProjectAccess, taskModel.create, task.created to the
\* project's room, task_assigned to an assignee other than the creator.
\* Nothing a task call writes is read between its two awaits.
TaskCreate(dto, userId) ==
  /\ svcOut = None
  /\ IF ~ValidateProjectAccess(dto.projectId, userId)
       THEN /\ svcOut' = Done("create", "Forbidden", <<>>)
            /\ UNCHANGED tasks
       ELSE /\ Len(tasks) < MaxTasks
            /\ tasks' = Append(tasks,
                 Some([createdBy |-> userId, projectId |-> dto.projectId,
                       status |-> "pending", assignedTo |-> dto.assignedTo]))
            /\ svcOut' = Done("create", "ok",
                 <<SvcRoomEmit("task.created", dto.projectId)>> \o
                 (IF NotifyOnCreate(dto, userId)
                    THEN <<SvcNotify(Val(dto.assignedTo), "task_assigned")>> ELSE <<>>))
  /\ UNCHANGED <<members, svcPending, socketVars>>

\* a call suspended at its write: its arguments and what it keeps of the task
\* it read (update: projectId and assignedTo; updateStatus: projectId and
\* createdBy; remove: projectId)
PendingCall(method, userId, id, arg, projectId, createdBy, oldAssignedTo) ==
  [method |-> method, actor |-> userId, id |-> id, arg |-> arg,
   projectId |-> projectId, createdBy |-> createdBy, oldAssignedTo |-> oldAssignedTo]

\* update up to the await of findByIdAndUpdate
TaskUpdateRead(id, dto, userId) ==
  /\ svcOut = None
  /\ Len(svcPending) < MaxCalls
  /\ LET task == FindTask(id) IN
       IF ~IsSome(task)
         THEN /\ svcOut' = Done("update", "NotFound", <<>>)
              /\ UNCHANGED svcPending
         ELSE IF ~CheckTaskAccess(Val(task), userId)
           THEN /\ svcOut' = Done("update", "Forbidden", <<>>)
                /\ UNCHANGED svcPending
           ELSE /\ svcPending' = Append(svcPending,
                     PendingCall("update", userId, id, dto.assignedTo,
                                 Val(task).projectId, "", Val(task).assignedTo))
                /\ UNCHANGED svcOut
  /\ UNCHANGED <<tasks, members, socketVars>>

\* findByIdAndUpdate resolves: the fields of the dto are written, task.updated
\* goes to the room of the project read, a new assignee is notified
TaskUpdateWrite(k) ==
  /\ svcOut = None
  /\ k \in DOMAIN svcPending
  /\ LET call == svcPending[k]
         stored == FindTask(call.id) IN
       /\ call.method = "update"
       /\ IF ~IsSome(stored)
            THEN /\ svcOut' = Done("update", "NotFound", <<>>)
                 /\ UNCHANGED tasks
            ELSE /\ tasks' = [tasks EXCEPT ![call.id] = Some(
                      [Val(stored) EXCEPT
                         !.assignedTo = IF IsSome(call.arg) THEN call.arg ELSE @])]
                 /\ svcOut' = Done("update", "ok",
                      <<SvcRoomEmit("task.updated", call.projectId)>> \o
                      (IF IsSome(call.arg) /\ call.arg # call.oldAssignedTo
                         THEN <<SvcNotify(Val(call.arg), "task_assigned")>>
                         ELSE <<>>))
  /\ svcPending' = Without(svcPending, k)
  /\ UNCHANGED <<members, socketVars>>

\* updateStatus up to the await of findByIdAndUpdate
TaskUpdateStatusRead(id, status, userId) ==
  /\ svcOut = None
  /\ Len(svcPending) < MaxCalls
  /\ LET task == FindTask(id) IN
       IF ~IsSome(task)
         THEN /\ svcOut' = Done("updateStatus", "NotFound", <<>>)
              /\ UNCHANGED svcPending
         ELSE IF Val(task).createdBy # userId /\ Val(task).assignedTo # Some(userId)
           THEN /\ svcOut' = Done("updateStatus", "Forbidden", <<>>)
                /\ UNCHANGED svcPending
           ELSE /\ svcPending' = Append(svcPending,
                     PendingCall("updateStatus", userId, id, Some(status),
                                 Val(task).projectId, Val(task).createdBy, None))
                /\ UNCHANGED svcOut
  /\ UNCHANGED <<tasks, members, socketVars>>

\* findByIdAndUpdate({status}) resolves: task.updated, and task_status_changed
\* to the creator unless the creator made the call
TaskUpdateStatusWrite(k) ==
  /\ svcOut = None
  /\ k \in DOMAIN svcPending
  /\ LET call == svcPending[k]
         stored == FindTask(call.id) IN
       /\ call.method = "updateStatus"
       /\ IF ~IsSome(stored)
            THEN /\ svcOut' = Done("updateStatus", "NotFound", <<>>)
                 /\ UNCHANGED tasks
            ELSE /\ tasks' = [tasks EXCEPT ![call.id] =
                      Some([Val(stored) EXCEPT !.status = Val(call.arg)])]
                 /\ svcOut' = Done("updateStatus", "ok",
                      <<SvcRoomEmit("task.updated", call.projectId)>> \o
                      (IF call.createdBy # call.actor
                         THEN <<SvcNotify(call.createdBy, "task_status_changed")>>
                         ELSE <<>>))
  /\ svcPending' = Without(svcPending, k)
  /\ UNCHANGED <<members, socketVars>>

\* remove up to the await of findByIdAndDelete
TaskRemoveRead(id, userId) ==
  /\ svcOut = None
  /\ Len(svcPending) < MaxCalls
  /\ LET task == FindTask(id) IN
       IF ~IsSome(task)
         THEN /\ svcOut' = Done("remove", "NotFound", <<>>)
              /\ UNCHANGED svcPending
         ELSE IF Val(task).createdBy # userId
           THEN /\ svcOut' = Done("remove", "Forbidden", <<>>)
                /\ UNCHANGED svcPending
           ELSE /\ svcPending' = Append(svcPending,
                     PendingCall("remove", userId, id, None, Val(task).projectId, "", None))
                /\ UNCHANGED svcOut
  /\ UNCHANGED <<tasks, members, socketVars>>

\* findByIdAndDelete resolves, whatever it found: task.deleted
TaskRemoveWrite(k) ==
  /\ svcOut = None
  /\ k \in DOMAIN svcPending
  /\ LET call == svcPending[k] IN
       /\ call.method = "remove"
       /\ tasks' = [tasks EXCEPT ![call.id] = None]
       /\ svcOut' = Done("remove", "ok",
                         <<SvcRoomEmit("task.deleted", call.projectId)>>)
  /\ svcPending' = Without(svcPending, k)
  /\ UNCHANGED <<members, socketVars>>

TaskNext ==
  \/ SvcReturn
  \/ \E dto \in CreateDtos, userId \in Actors : TaskCreate(dto, userId)
  \/ \E id \in TaskRefs, dto \in UpdateDtos, userId \in Actors :
       TaskUpdateRead(id, dto, userId)
  \/ \E k \in 1..MaxCalls : TaskUpdateWrite(k)
  \/ \E id \in TaskRefs, status \in TaskStatuses, userId \in Actors :
       TaskUpdateStatusRead(id, status, userId)
  \/ \E k \in 1..MaxCalls : TaskUpdateStatusWrite(k)
  \/ \E id \in TaskRefs, userId \in Actors : TaskRemoveRead(id, userId)
  \/ \E k \in 1..MaxCalls : TaskRemoveWrite(k)

TaskSpec == Init /\ [][TaskNext]_vars

\* what each mutation of a task requires of the actor, on the task as stored
C24_Allowed(method, task, userId) ==
  IF method = "update" THEN task.projectId = "A" /\ IsMember(members, userId)
  ELSE IF method = "updateStatus"
    THEN task.createdBy = userId \/ task.assignedTo = Some(userId)
  ELSE task.createdBy = userId

\* C24: task mutations are authorized and atomic on rejection. A call gets
\* past its checks only if the task exists and the actor is a member of the
\* task's project (update), its creator or assignee (updateStatus), its creator
\* (remove); a task is stored only for a creator who is a member of the active
\* target project; the store changes only in a call that ends normally; and a
\* call that ends Forbidden or NotFound leaves the store as it was and has
\* called no SocketService method.
C24_Step ==
  /\ Len(svcPending') > Len(svcPending) =>
       LET call == svcPending'[Len(svcPending')] IN
         /\ IsSome(FindTask(call.id))
         /\ C24_Allowed(call.method, Val(FindTask(call.id)), call.actor)
  /\ Len(tasks') > Len(tasks) =>
       LET new == Val(tasks'[Len(tasks')]) IN
         new.projectId = "A" /\ IsMember(members, new.createdBy)
  /\ tasks' # tasks => IsSome(svcOut') /\ Val(svcOut').outcome = "ok"
  /\ (svcOut = None /\ IsSome(svcOut') /\ Val(svcOut').outcome # "ok") =>
       /\ Val(svcOut').outcome \in {"Forbidden", "NotFound"}
       /\ tasks' = tasks
       /\ Val(svcOut').events = <<>>

C25_Step ==
  /\ (svcOut = None /\ IsSome(svcOut') /\ Val(svcOut').method = "create"
        /\ Val(svcOut').outcome = "ok") =>
       /\ Len(tasks') = Len(tasks) + 1
       /\ SubSeq(tasks', 1, Len(tasks)) = tasks
       /\ IsSome(tasks'[Len(tasks')])
       /\ LET new == Val(tasks'[Len(tasks')])
              events == Val(svcOut').events IN
            /\ events =
                 <<[event |-> "task.created", room |-> <<"project", ":", new.projectId>>,
                    user |-> "", type |-> ""]>> \o
                 (IF IsSome(new.assignedTo) /\ Val(new.assignedTo) # new.createdBy
                    THEN <<[event |-> "notification", room |-> <<>>,
                            user |-> Val(new.assignedTo), type |-> "task_assigned"]>>
                    ELSE <<>>)
            /\ \A i \in 1..Len(events) : events[i].user # new.createdBy
  /\ Len(tasks') > Len(tasks) =>
       IsSome(svcOut') /\ Val(svcOut').method = "create" /\ Val(svcOut').outcome = "ok"

C25_CreateEmitsAndNotifies == [][C25_Step]_vars

\* bob created a task assigned to ann: task.created went out and ann was notified
C25_Witness ==
  /\ svcOut = Done("create", "ok", <<SvcRoomEmit("task.created", "A"),
                                      SvcNotify("ann", "task_assigned")>>)
  /\ Len(tasks) = 1 /\ IsSome(tasks[1]) /\ Val(tasks[1]).createdBy = "bob"

====
